---- MODULE Spec2Model ----
(***************************************************************************)
(* Model of the distributed message board of sistema-distribuido-de-       *)
(* mensageria: three Node objects (core/node.py), each with its            *)
(* AuthManager (core/auth.py) and its list of Message (core/message.py).   *)
(*                                                                         *)
(* A request is handled by one thread of the node that receives it.  The   *)
(* handlers that call peers (login, post_message) are split at every peer  *)
(* round trip; the other handlers are one step.  A peer round trip         *)
(* (check_status, sync) is served by the peer inside the caller's step.    *)
(***************************************************************************)
EXTENDS Integers, Sequences, FiniteSets, TLC

(* ------------------------------ bounds --------------------------------- *)
\* largest reading of time.time() the model follows
MaxClock == 2
\* largest number of entries of AuthManager.logged_users of one node
MaxSessions == 2
\* number of client requests the model follows
MaxRequests == 4
\* the same where clients address only the nodes of PairNodes
MaxPairRequests == 5
\* the same where requests are handled concurrently
MaxConcRequests == 3
\* the same where readers and writers address the nodes of PairNodes
MaxReadRequests == 4
\* the same where users log in, toggle and post over a network that can fail
MaxDeliverRequests == 4
\* the same where nodes are toggled while posts are under way
MaxToggleRequests == 4
\* the same where clients ask the nodes of PairNodes for their status
MaxStatusRequests == 3
\* the same where every handler in progress is scheduled again and again
MaxLiveRequests == 3
\* the same where sync requests bring messages from a pool
MaxSyncRequests == 3
\* the same where threads post, toggle and read on one node
MaxRaceRequests == 4
\* the same where threads handle sync requests on one node
MaxAddRequests == 3
\* the same where users log out with revoked tokens
MaxRevokeRequests == 4
\* largest id and largest timestamp of the messages of the pool
MaxPoolId == 2
MaxPoolStamp == 3

(* ------------------------- program constants --------------------------- *)
\* iniciar_programa.py nodes_config: Node1..Node3 on ports 8001..8003
NumNodes == 3
Nodes == 1..NumNodes
\* the nodes clients address in the longer runs
PairNodes == {1, 2}
\* peers of a node, in the order of its list
Peers(n) == IF n = 1 THEN <<2, 3>> ELSE IF n = 2 THEN <<1, 3>> ELSE <<1, 2>>

None == "None"

\* AuthManager._hash_password: md5 of the password (taken as injective)
HashPassword(pw) == <<"md5", pw>>

\* AuthManager.users: the preloaded table (two of its four rows)
Users == {"admin", "user1"}
UserTable == [u \in Users |-> IF u = "admin" THEN HashPassword("admin123")
                                             ELSE HashPassword("password1")]

\* what clients send: two valid logins, a wrong password, an unknown user
Credentials == {<<"admin", "admin123">>, <<"user1", "password1">>,
                <<"user1", "admin123">>, <<"ghost", "admin123">>}
Contents == {"hello"}
MessageTypes == {"public", "private"}

\* the optional fields of a post_message request: MessageClient.post_message
\* sends the key visibility, a request written by hand the key message_type
\* and an author of its choice
PostFields ==
  {[message_type |-> None, visibility |-> v, author |-> None] : v \in MessageTypes}
    \cup {[message_type |-> "private", visibility |-> None, author |-> "admin"]}

\* request.get('message_type', 'public') in Node._handle_post_message
RequestMessageType(fields) ==
  IF fields.message_type = None THEN "public" ELSE fields.message_type

\* AuthManager._generate_token: md5 of "<username>_<len(logged_users)>"
GenerateToken(username, logged) == <<"md5", username, Cardinality(DOMAIN logged)>>

VARIABLES
  now,              \* last reading of time.time(), in ticks of the clock
  active,           \* Node.active
  current_user,     \* Node.current_user
  simulate_offline, \* Node.simulate_offline
  was_offline,      \* Node.was_offline
  messages,         \* Node.messages
  message_ids,      \* Node.message_ids
  logged_users,     \* AuthManager.logged_users of the node: token -> username
  current_request_token, \* Node._current_request_token while a get_messages is to read it
  req,              \* the login, post_message or get_messages handler in progress on the node
  used,             \* number of client requests received so far
  last              \* the last request answered: request, response, handler locals

vars == <<now, active, current_user, simulate_offline, was_offline,
          messages, message_ids, logged_users, current_request_token, req, used, last>>

nodeVars == <<active, current_user, simulate_offline, was_offline,
              messages, message_ids, logged_users>>

(* ------------------------------ Message -------------------------------- *)
\* Message.__init__ without message_id: id and timestamp are readings of the clock
NewMessage(content, author, message_type, t) ==
  [id |-> t, content |-> content, author |-> author,
   message_type |-> message_type, timestamp |-> t]

\* Message.to_dict
ToDict(m) ==
  [id |-> m.id, content |-> m.content, author |-> m.author,
   message_type |-> m.message_type, timestamp |-> m.timestamp]

\* Message.from_dict: a falsy id is replaced by a reading of the clock
FromDict(d, t) ==
  [id |-> IF d.id = 0 THEN t ELSE d.id, content |-> d.content,
   author |-> d.author, message_type |-> d.message_type,
   timestamp |-> d.timestamp]

(* --------------------------- message store ----------------------------- *)
\* list.sort(key=timestamp): stable insertion of the appended element
RECURSIVE InsertSorted(_, _)
InsertSorted(s, m) ==
  IF s = <<>> THEN <<m>>
  ELSE IF s[Len(s)].timestamp <= m.timestamp THEN Append(s, m)
  ELSE Append(InsertSorted(SubSeq(s, 1, Len(s) - 1), m), s[Len(s)])

RECURSIVE SortByTimestamp(_)
SortByTimestamp(s) ==
  IF s = <<>> THEN <<>>
  ELSE InsertSorted(SortByTimestamp(SubSeq(s, 1, Len(s) - 1)), s[Len(s)])

\* a variant that appends and does not sort
AddMessage_Unsorted(msgs, ids, m) ==
  IF m.id \notin ids
  THEN [messages |-> Append(msgs, m), ids |-> ids \cup {m.id}, added |-> TRUE]
  ELSE [messages |-> msgs, ids |-> ids, added |-> FALSE]

\* a variant that appends without looking at the id set
AddMessage_NoLookup(msgs, ids, m) ==
  [messages |-> SortByTimestamp(Append(msgs, m)), ids |-> ids \cup {m.id}, added |-> TRUE]

\* Node._add_message: the list and the id set after the call
AddMessage(msgs, ids, m) ==
  IF m.id \notin ids
  THEN [messages |-> SortByTimestamp(Append(msgs, m)), ids |-> ids \cup {m.id}, added |-> TRUE]
  ELSE [messages |-> msgs, ids |-> ids, added |-> FALSE]

(* ------------------------------ network -------------------------------- *)
\* a variant in which a node that simulates offline reports itself inactive
HandleCheckStatus_Hiding(p) ==
  [status |-> "success", node_id |-> p, active |-> active[p] /\ ~simulate_offline[p],
   user |-> current_user[p], simulate_offline |-> simulate_offline[p]]

\* Node._handle_check_status
HandleCheckStatus(p) ==
  [status |-> "success", node_id |-> p, active |-> active[p],
   user |-> current_user[p], simulate_offline |-> simulate_offline[p]]

\* the None of _get_peer_status
NoStatus == [status |-> None, node_id |-> 0, active |-> FALSE, user |-> None,
             simulate_offline |-> FALSE]

\* Node._get_peer_status: the peer's answer, or None when _send_to_peer raises
\* (connected says whether the round trip completes within the timeout)
GetPeerStatus(p, connected) == IF connected THEN HandleCheckStatus(p) ELSE NoStatus

(* ------------------------------ requests ------------------------------- *)
NoToken == <<"md5", None, 0>>
NoMessage == [id |-> 0, content |-> None, author |-> None, message_type |-> None,
              timestamp |-> 0]

\* a handler: its request, its position and its local variables; answered
\* is the set of peers whose check_status call of this post returned
Idle == [kind |-> "idle", pc |-> "idle", username |-> None, password |-> None,
         token |-> NoToken, idx |-> 0, message |-> NoMessage,
         active_peers |-> <<>>, sent_to |-> <<>>, failed_to |-> <<>>,
         offline_nodes |-> <<>>, answered |-> {}]

\* the peers the text of the report's message names, by the list they come from
NoNames == [received |-> <<>>, not_received |-> <<>>, offline |-> <<>>]

NoReport == [type |-> None, sent_to |-> <<>>, failed_to |-> <<>>, offline_nodes |-> <<>>,
             total_possible_recipients |-> 0, names |-> NoNames]

NoLast == [node |-> 0, action |-> None, username |-> None, token |-> NoToken,
           status |-> None, message |-> None, conflict |-> 0, new_token |-> NoToken,
           simulate_offline |-> FALSE, msg |-> NoMessage, delivery_report |-> NoReport,
           messages |-> <<>>, authenticated |-> FALSE, node_status |-> NoStatus]

AllIdle == \A n \in Nodes : req[n].kind = "idle"

Init ==
  /\ now = 1
  /\ active = [n \in Nodes |-> FALSE]
  /\ current_user = [n \in Nodes |-> None]
  /\ simulate_offline = [n \in Nodes |-> FALSE]
  /\ was_offline = [n \in Nodes |-> FALSE]
  /\ messages = [n \in Nodes |-> <<>>]
  /\ message_ids = [n \in Nodes |-> {}]
  /\ logged_users = [n \in Nodes |-> [t \in {} |-> None]]
  /\ current_request_token = [n \in Nodes |-> NoToken]
  /\ req = [n \in Nodes |-> Idle]
  /\ used = 0
  /\ last = NoLast

\* the ways requests are received: up to limit requests, one after another
\* (serial) or each by its own thread while others are in progress
Serial(limit) == [limit |-> limit, serial |-> TRUE]
Threaded(limit) == [limit |-> limit, serial |-> FALSE]

\* Node._accept_connections: a client request is received
Receive(how) ==
  /\ used < how.limit
  /\ used' = used + 1
  /\ how.serial => AllIdle

\* a get_messages handler of node p has still to read _current_request_token
ReadPending(p) == req[p].kind = "get_messages"

\* Node._process_request: the request's token (NoToken when it has none) is
\* kept in _current_request_token of node n.  The attribute is read only by
\* _handle_get_messages, whose own request has written it first, so its value
\* is followed while such a read is pending and is NoToken otherwise
ProcessRequest(n, token) ==
  current_request_token' = [current_request_token EXCEPT
                              ![n] = IF ReadPending(n) THEN token ELSE @]

\* the same for the requests the peers in ps receive from a handler
Served(ps) ==
  current_request_token' = [p \in Nodes |-> IF p \in ps /\ ReadPending(p) THEN NoToken
                                            ELSE current_request_token[p]]

(* ------------------------------- login --------------------------------- *)
\* AuthManager.login: the token, or NoToken for None
AuthLogin(logged, username, password) ==
  IF username \notin DOMAIN UserTable THEN NoToken
  ELSE IF UserTable[username] # HashPassword(password) THEN NoToken
  ELSE GenerateToken(username, logged)

\* a login request arrives at node n
LoginBegin(n, username, password, how) ==
  /\ Receive(how)
  /\ req[n].kind = "idle"
  /\ Cardinality(DOMAIN logged_users[n]) < MaxSessions
  /\ req' = [req EXCEPT ![n] = [Idle EXCEPT !.kind = "login", !.pc = "probe", !.idx = 1,
                                            !.username = username, !.password = password]]
  /\ ProcessRequest(n, NoToken)
  /\ UNCHANGED <<now, nodeVars, last>>

\* a variant that starts the loop again when a peer does not answer
LoginProbe_Restarting(n, connected) ==
  /\ req[n].kind = "login" /\ req[n].pc = "probe"
  /\ IF ~connected
     THEN /\ req' = [req EXCEPT ![n].idx = 1]
          /\ UNCHANGED last
     ELSE LET p == Peers(n)[req[n].idx]
              peer_status == GetPeerStatus(p, connected)
          IN IF peer_status.active /\ peer_status.user = req[n].username
             THEN /\ last' = [NoLast EXCEPT !.node = n, !.action = "login",
                                            !.username = req[n].username, !.status = "error",
                                            !.message = "already_connected_on_peer",
                                            !.conflict = peer_status.node_id]
                  /\ req' = [req EXCEPT ![n] = Idle]
             ELSE /\ req' = [req EXCEPT ![n].idx = @ + 1,
                                        ![n].pc = IF req[n].idx = Len(Peers(n)) THEN "finish"
                                                  ELSE "probe"]
                  /\ UNCHANGED last
  /\ Served(IF connected THEN {Peers(n)[req[n].idx]} ELSE {})
  /\ UNCHANGED <<now, nodeVars, used>>

\* Node._handle_login, one turn of the loop over self.peers
LoginProbe(n, connected) ==
  /\ req[n].kind = "login" /\ req[n].pc = "probe"
  /\ LET p == Peers(n)[req[n].idx]
         peer_status == GetPeerStatus(p, connected)
     IN IF peer_status.status = "success" /\ peer_status.active
           /\ peer_status.user = req[n].username
        THEN /\ last' = [NoLast EXCEPT !.node = n, !.action = "login",
                                       !.username = req[n].username, !.status = "error",
                                       !.message = "already_connected_on_peer",
                                       !.conflict = peer_status.node_id]
             /\ req' = [req EXCEPT ![n] = Idle]
        ELSE /\ req' = [req EXCEPT ![n].idx = @ + 1,
                                   ![n].pc = IF req[n].idx = Len(Peers(n)) THEN "finish" ELSE "probe"]
             /\ UNCHANGED last
  /\ Served(IF connected THEN {Peers(n)[req[n].idx]} ELSE {})
  /\ UNCHANGED <<now, nodeVars, used>>

\* Node.activate_node raises AttributeError at the use of the undefined
\* self._sync_missed_messages, after active and current_user are set
ActivateRaises(n) == was_offline[n] /\ ~active[n]

\* a variant that looks at the peers once more, in one step with the activation
LoginFinish_Rechecking(n) ==
  /\ req[n].kind = "login" /\ req[n].pc = "finish"
  /\ LET username == req[n].username
         token == AuthLogin(logged_users[n], username, req[n].password)
         answer == [NoLast EXCEPT !.node = n, !.action = "login", !.username = username]
     IN IF current_user[n] = username
        THEN /\ last' = [answer EXCEPT !.status = "error", !.message = "already_connected_here"]
             /\ UNCHANGED nodeVars
        ELSE IF token = NoToken
        THEN /\ last' = [answer EXCEPT !.status = "error", !.message = "invalid_credentials"]
             /\ UNCHANGED nodeVars
        ELSE IF \E p \in Nodes \ {n} : active[p] /\ current_user[p] = username
        THEN /\ last' = [answer EXCEPT !.status = "error",
                                       !.message = "already_connected_on_peer"]
             /\ UNCHANGED nodeVars
        ELSE /\ logged_users' = [logged_users EXCEPT ![n] = (token :> username) @@ @]
             /\ active' = [active EXCEPT ![n] = TRUE]
             /\ current_user' = [current_user EXCEPT ![n] = username]
             /\ last' = IF ActivateRaises(n)
                        THEN [answer EXCEPT !.status = "error", !.message = "AttributeError"]
                        ELSE [answer EXCEPT !.status = "success", !.new_token = token]
             /\ UNCHANGED <<simulate_offline, was_offline, messages, message_ids>>
  /\ req' = [req EXCEPT ![n] = Idle]
  /\ UNCHANGED <<now, used, current_request_token>>

\* Node._handle_login after the loop: self check, AuthManager.login, activate_node;
\* an exception is answered by _handle_client with status error
LoginFinish(n) ==
  /\ req[n].kind = "login" /\ req[n].pc = "finish"
  /\ LET username == req[n].username
         token == AuthLogin(logged_users[n], username, req[n].password)
         answer == [NoLast EXCEPT !.node = n, !.action = "login", !.username = username]
     IN IF current_user[n] = username
        THEN /\ last' = [answer EXCEPT !.status = "error", !.message = "already_connected_here"]
             /\ UNCHANGED nodeVars
        ELSE IF token = NoToken
        THEN /\ last' = [answer EXCEPT !.status = "error", !.message = "invalid_credentials"]
             /\ UNCHANGED nodeVars
        ELSE /\ logged_users' = [logged_users EXCEPT ![n] = (token :> username) @@ @]
             /\ active' = [active EXCEPT ![n] = TRUE]
             /\ current_user' = [current_user EXCEPT ![n] = username]
             /\ last' = IF ActivateRaises(n)
                        THEN [answer EXCEPT !.status = "error", !.message = "AttributeError"]
                        ELSE [answer EXCEPT !.status = "success", !.new_token = token]
             /\ UNCHANGED <<simulate_offline, was_offline, messages, message_ids>>
  /\ req' = [req EXCEPT ![n] = Idle]
  /\ UNCHANGED <<now, used, current_request_token>>

(* ------------------------------- logout -------------------------------- *)
\* a variant that leaves the token in the map
AuthLogout_Keep(logged, token) == logged

\* AuthManager.logout
AuthLogout(logged, token) == [t \in DOMAIN logged \ {token} |-> logged[t]]

\* a variant that clears the active flag and keeps current_user
Logout_KeepUser(n, token, how) ==
  /\ Receive(how)
  /\ ProcessRequest(n, token)
  /\ LET answer == [NoLast EXCEPT !.node = n, !.action = "logout", !.token = token]
     IN IF token \notin DOMAIN logged_users[n]
        THEN /\ last' = [answer EXCEPT !.status = "error", !.message = "invalid_token"]
             /\ UNCHANGED nodeVars
        ELSE /\ logged_users' = [logged_users EXCEPT ![n] = AuthLogout(@, token)]
             /\ active' = [active EXCEPT ![n] = FALSE]
             /\ last' = [answer EXCEPT !.status = "success", !.username = logged_users[n][token]]
             /\ UNCHANGED <<current_user, simulate_offline, was_offline, messages,
                            message_ids>>
  /\ UNCHANGED <<now, req>>

\* a variant that deactivates the node whatever the token
Logout_Always(n, token, how) ==
  /\ Receive(how)
  /\ ProcessRequest(n, token)
  /\ LET answer == [NoLast EXCEPT !.node = n, !.action = "logout", !.token = token]
     IN /\ logged_users' = [logged_users EXCEPT ![n] = AuthLogout(@, token)]
        /\ active' = [active EXCEPT ![n] = FALSE]
        /\ current_user' = [current_user EXCEPT ![n] = None]
        /\ last' = IF token \notin DOMAIN logged_users[n]
                   THEN [answer EXCEPT !.status = "error", !.message = "invalid_token"]
                   ELSE [answer EXCEPT !.status = "success",
                                       !.username = logged_users[n][token]]
        /\ UNCHANGED <<simulate_offline, was_offline, messages, message_ids>>
  /\ UNCHANGED <<now, req>>

\* Node._handle_logout with Node.deactivate_node
Logout(n, token, how) ==
  /\ Receive(how)
  /\ ProcessRequest(n, token)
  /\ LET answer == [NoLast EXCEPT !.node = n, !.action = "logout", !.token = token]
     IN IF token \notin DOMAIN logged_users[n]
        THEN /\ last' = [answer EXCEPT !.status = "error", !.message = "invalid_token"]
             /\ UNCHANGED nodeVars
        ELSE /\ logged_users' = [logged_users EXCEPT ![n] = AuthLogout(@, token)]
             /\ active' = [active EXCEPT ![n] = FALSE]
             /\ current_user' = [current_user EXCEPT ![n] = None]
             /\ last' = [answer EXCEPT !.status = "success", !.username = logged_users[n][token]]
             /\ UNCHANGED <<simulate_offline, was_offline, messages, message_ids>>
  /\ UNCHANGED <<now, req>>

(* --------------------------- toggle_offline ---------------------------- *)
\* a variant that also ends the node's session when the simulation starts
ToggleOffline_Deactivating(n, token, how) ==
  /\ Receive(how)
  /\ ProcessRequest(n, token)
  /\ simulate_offline' = [simulate_offline EXCEPT ![n] = ~@]
  /\ was_offline' = [was_offline EXCEPT ![n] = IF ~simulate_offline[n] THEN TRUE ELSE @]
  /\ active' = [active EXCEPT ![n] = @ /\ simulate_offline[n]]
  /\ last' = [NoLast EXCEPT !.node = n, !.action = "toggle_offline", !.status = "success",
                            !.simulate_offline = ~simulate_offline[n]]
  /\ UNCHANGED <<now, current_user, messages, message_ids, logged_users, req>>

\* Node._handle_toggle_offline
ToggleOffline(n, token, how) ==
  /\ Receive(how)
  /\ ProcessRequest(n, token)
  /\ simulate_offline' = [simulate_offline EXCEPT ![n] = ~@]
  /\ was_offline' = [was_offline EXCEPT ![n] = IF ~simulate_offline[n] THEN TRUE ELSE @]
  /\ last' = [NoLast EXCEPT !.node = n, !.action = "toggle_offline", !.status = "success",
                            !.simulate_offline = ~simulate_offline[n]]
  /\ UNCHANGED <<now, active, current_user, messages, message_ids, logged_users, req>>

(* ---------------------------- check_status ----------------------------- *)
\* Node._process_request for a check_status request of a client
CheckStatus(n, how) ==
  /\ Receive(how)
  /\ ProcessRequest(n, NoToken)
  /\ last' = [NoLast EXCEPT !.node = n, !.action = "check_status", !.status = "success",
                            !.node_status = HandleCheckStatus(n)]
  /\ UNCHANGED <<now, nodeVars, req>>

(* -------------------------------- sync --------------------------------- *)
\* a variant that refuses only while the node is inactive
HandleSync_ActiveOnly(p, d) ==
  IF ~active[p]
  THEN [status |-> "error", messages |-> messages[p], ids |-> message_ids[p]]
  ELSE LET r == AddMessage(messages[p], message_ids[p], FromDict(d, now))
       IN [status |-> "success", messages |-> r.messages, ids |-> r.ids]

\* Node._handle_sync at peer p for the one message of a replication push:
\* the answer and the peer's store after it
HandleSync(p, d) ==
  IF ~active[p] \/ simulate_offline[p]
  THEN [status |-> "error", messages |-> messages[p], ids |-> message_ids[p]]
  ELSE LET r == AddMessage(messages[p], message_ids[p], FromDict(d, now))
       IN [status |-> "success", messages |-> r.messages, ids |-> r.ids]

\* Node._process_request for a sync request that carries the one message d
SyncRequest(p, d, how) ==
  /\ Receive(how)
  /\ ProcessRequest(p, NoToken)
  /\ LET response == HandleSync(p, d)
     IN /\ messages' = [messages EXCEPT ![p] = response.messages]
        /\ message_ids' = [message_ids EXCEPT ![p] = response.ids]
        /\ last' = [NoLast EXCEPT !.node = p, !.action = "sync",
                                  !.status = response.status]
  /\ UNCHANGED <<now, active, current_user, simulate_offline, was_offline, logged_users, req>>

\* Node._handle_sync up to the test of Node._add_message: the thread that
\* handles the request has found the id absent from message_ids and has not
\* yet appended; a request that is refused, or whose id is present, is answered
SyncBegin(p, d, how) ==
  /\ Receive(how)
  /\ req[p].kind = "idle"
  /\ ProcessRequest(p, NoToken)
  /\ LET message == FromDict(d, now)
     IN IF ~active[p] \/ simulate_offline[p]
        THEN /\ last' = [NoLast EXCEPT !.node = p, !.action = "sync", !.status = "error"]
             /\ UNCHANGED req
        ELSE IF message.id \in message_ids[p]
        THEN /\ last' = [NoLast EXCEPT !.node = p, !.action = "sync", !.status = "success"]
             /\ UNCHANGED req
        ELSE /\ req' = [req EXCEPT ![p] = [Idle EXCEPT !.kind = "sync", !.pc = "append",
                                                       !.message = message]]
             /\ UNCHANGED last
  /\ UNCHANGED <<now, nodeVars>>

\* Node._add_message after the test: append, add the id, sort; the request
\* is answered
SyncAppend(p) ==
  /\ req[p].kind = "sync" /\ req[p].pc = "append"
  /\ messages' = [messages EXCEPT ![p] = SortByTimestamp(Append(@, req[p].message))]
  /\ message_ids' = [message_ids EXCEPT ![p] = @ \cup {req[p].message.id}]
  /\ last' = [NoLast EXCEPT !.node = p, !.action = "sync", !.status = "success"]
  /\ req' = [req EXCEPT ![p] = Idle]
  /\ UNCHANGED <<now, active, current_user, simulate_offline, was_offline, logged_users,
                 current_request_token, used>>

(* ---------------------------- get_messages ---------------------------- *)
\* a variant that returns every message to every reader
Listing_All(n, is_authenticated) == [i \in 1..Len(messages[n]) |-> ToDict(messages[n][i])]

\* Node._handle_get_messages: messages_data
Listing(n, is_authenticated) ==
  LET kept == IF is_authenticated THEN messages[n]
              ELSE SelectSeq(messages[n], LAMBDA m : m.message_type = "public")
  IN [i \in 1..Len(kept) |-> ToDict(kept[i])]

\* Node._process_request for a get_messages request: the token is stored and
\* the handler is entered
GetBegin(n, token, how) ==
  /\ Receive(how)
  /\ req[n].kind = "idle"
  /\ current_request_token' = [current_request_token EXCEPT ![n] = token]
  /\ req' = [req EXCEPT ![n] = [Idle EXCEPT !.kind = "get_messages", !.pc = "read",
                                            !.token = token]]
  /\ UNCHANGED <<now, nodeVars, last>>

\* Node._handle_get_messages: reads _current_request_token and answers
GetRead(n) ==
  /\ req[n].kind = "get_messages" /\ req[n].pc = "read"
  /\ LET request_token == current_request_token[n]
         is_authenticated == request_token # NoToken
                             /\ request_token \in DOMAIN logged_users[n]
     IN last' = [NoLast EXCEPT !.node = n, !.action = "get_messages",
                               !.token = req[n].token, !.status = "success",
                               !.messages = Listing(n, is_authenticated),
                               !.authenticated = is_authenticated]
  /\ current_request_token' = [current_request_token EXCEPT ![n] = NoToken]
  /\ req' = [req EXCEPT ![n] = Idle]
  /\ UNCHANGED <<now, nodeVars, used>>

(* ---------------------------- post_message ----------------------------- *)
\* entry of active_peers, sent_to, failed_to and offline_nodes
PeerEntry(p, peer_info) == [port |-> p, user |-> peer_info.user, node_id |-> peer_info.node_id]

\* f"{n['user']}({n['port']})" for each entry of a list
UserPorts(entries) == [i \in 1..Len(entries) |-> <<entries[i].user, entries[i].port>>]

\* a variant whose message names no offline peer
EmptyReport_Unnamed(offline_nodes) ==
  [NoReport EXCEPT !.type = IF Len(offline_nodes) > 0 THEN "recipients_offline"
                                                      ELSE "no_recipients",
                   !.offline_nodes = offline_nodes]

\* a variant that tests the wrong list
EmptyReport_WrongList(offline_nodes) ==
  [NoReport EXCEPT !.type = "recipients_offline", !.offline_nodes = offline_nodes,
                   !.names = [NoNames EXCEPT !.offline = UserPorts(offline_nodes)]]

\* Node._replicate_message_with_report: the report returned when no peer is active
EmptyReport(offline_nodes) ==
  [NoReport EXCEPT !.type = IF Len(offline_nodes) > 0 THEN "recipients_offline"
                                                      ELSE "no_recipients",
                   !.offline_nodes = offline_nodes,
                   !.names = IF Len(offline_nodes) > 0
                             THEN [NoNames EXCEPT !.offline = UserPorts(offline_nodes)]
                             ELSE NoNames]

\* a variant that expects every peer of the node, not every active one, to receive
FinalReport_EveryPeer(active_peers, sent_to, failed_to, offline_nodes) ==
  [type |-> IF Len(sent_to) = NumNodes - 1 THEN "all_received"
            ELSE IF Len(sent_to) > 0 THEN "partial_received" ELSE "delivery_failed",
   sent_to |-> sent_to, failed_to |-> failed_to, offline_nodes |-> offline_nodes,
   total_possible_recipients |-> Len(active_peers),
   names |-> IF Len(sent_to) > 0
             THEN [NoNames EXCEPT !.received = UserPorts(sent_to),
                                  !.not_received = UserPorts(failed_to)]
             ELSE NoNames]

\* a variant whose partial message leaves out the peers that failed
FinalReport_FailedUnnamed(active_peers, sent_to, failed_to, offline_nodes) ==
  [type |-> IF Len(failed_to) = 0 THEN "all_received"
            ELSE IF Len(sent_to) > 0 THEN "partial_received" ELSE "delivery_failed",
   sent_to |-> sent_to, failed_to |-> failed_to, offline_nodes |-> offline_nodes,
   total_possible_recipients |-> Len(active_peers),
   names |-> [NoNames EXCEPT !.received = UserPorts(sent_to)]]

\* Node._replicate_message_with_report: the report returned after the pushes
FinalReport(active_peers, sent_to, failed_to, offline_nodes) ==
  [type |-> IF Len(sent_to) = Len(active_peers) /\ Len(failed_to) = 0 THEN "all_received"
            ELSE IF Len(sent_to) > 0
                 THEN (IF Len(failed_to) > 0 THEN "partial_received" ELSE "all_received")
                 ELSE "delivery_failed",
   sent_to |-> sent_to, failed_to |-> failed_to, offline_nodes |-> offline_nodes,
   total_possible_recipients |-> Len(active_peers),
   names |-> IF Len(sent_to) = Len(active_peers) /\ Len(failed_to) = 0
             THEN (IF Len(sent_to) = 1
                   THEN [NoNames EXCEPT !.received = UserPorts(sent_to)]
                   ELSE NoNames)
             ELSE IF Len(sent_to) > 0
                  THEN [NoNames EXCEPT !.received = UserPorts(sent_to),
                                       !.not_received = UserPorts(failed_to)]
                  ELSE NoNames]

\* the answer of an accepted post_message
PostAnswer(n, report) ==
  [NoLast EXCEPT !.node = n, !.action = "post_message", !.token = req[n].token,
                 !.username = req[n].username, !.status = "success",
                 !.msg = req[n].message, !.delivery_report = report]

\* a variant that validates the token before it looks at the node's flags
PostRejection_TokenFirst(n, token) ==
  IF token \notin DOMAIN logged_users[n] THEN "invalid_token"
  ELSE IF ~active[n] THEN "node_inactive"
  ELSE IF simulate_offline[n] THEN "node_offline"
  ELSE None

\* Node._handle_post_message, the three checks in their order: the error
\* answered, or None when the post is accepted
PostRejection(n, token) ==
  IF ~active[n] THEN "node_inactive"
  ELSE IF simulate_offline[n] THEN "node_offline"
  ELSE IF token \notin DOMAIN logged_users[n] THEN "invalid_token"
  ELSE None

\* a variant that takes the author from the request when it names one
PostAuthor_Supplied(n, token, fields) ==
  IF fields.author # None THEN fields.author ELSE logged_users[n][token]

\* AuthManager.get_username for the request's token: the author of the post
PostAuthor(n, token, fields) == logged_users[n][token]

\* Node._handle_post_message up to the local _add_message; t is the reading
\* of time.time() in Message.__init__
PostBegin(n, token, content, fields, t, how) ==
  /\ Receive(how)
  /\ ProcessRequest(n, token)
  /\ req[n].kind = "idle"
  /\ IF PostRejection(n, token) # None
     THEN /\ last' = [NoLast EXCEPT !.node = n, !.action = "post_message", !.token = token,
                                    !.status = "error", !.message = PostRejection(n, token)]
          /\ UNCHANGED <<now, nodeVars, req>>
     ELSE LET username == PostAuthor(n, token, fields)
              message_type == RequestMessageType(fields)
              message == NewMessage(content, username, message_type, t)
              r == AddMessage(messages[n], message_ids[n], message)
          IN /\ now' = t
             /\ messages' = [messages EXCEPT ![n] = r.messages]
             /\ message_ids' = [message_ids EXCEPT ![n] = r.ids]
             /\ req' = [req EXCEPT ![n] = [Idle EXCEPT !.kind = "post_message", !.pc = "probe",
                                                       !.idx = 1, !.token = token,
                                                       !.username = username,
                                                       !.message = message]]
             /\ UNCHANGED <<active, current_user, simulate_offline, was_offline,
                            logged_users, last>>

\* a variant that takes every peer that answers for an active one
PostProbe_Everyone(n, connected) ==
  /\ req[n].kind = "post_message" /\ req[n].pc = "probe"
  /\ LET p == Peers(n)[req[n].idx]
         peer_info == GetPeerStatus(p, connected)
         up == peer_info.status = "success"
         active_peers == IF up /\ ~peer_info.simulate_offline
                         THEN Append(req[n].active_peers, PeerEntry(p, peer_info))
                         ELSE req[n].active_peers
         offline_nodes == IF up /\ peer_info.simulate_offline
                          THEN Append(req[n].offline_nodes, PeerEntry(p, peer_info))
                          ELSE req[n].offline_nodes
     IN IF req[n].idx < Len(Peers(n))
        THEN /\ req' = [req EXCEPT ![n].idx = @ + 1, ![n].active_peers = active_peers,
                                   ![n].offline_nodes = offline_nodes,
                                   ![n].answered = IF connected THEN @ \cup {p} ELSE @]
             /\ UNCHANGED last
        ELSE IF Len(active_peers) = 0
        THEN /\ last' = PostAnswer(n, EmptyReport(offline_nodes))
             /\ req' = [req EXCEPT ![n] = Idle]
        ELSE /\ req' = [req EXCEPT ![n].idx = 1, ![n].pc = "push",
                                   ![n].active_peers = active_peers,
                                   ![n].offline_nodes = offline_nodes,
                                   ![n].answered = {}]
             /\ UNCHANGED last
  /\ Served(IF connected THEN {Peers(n)[req[n].idx]} ELSE {})
  /\ UNCHANGED <<now, nodeVars, used>>

\* Node._replicate_message_with_report, one turn of the loop that probes self.peers;
\* after the last turn with no active peer the report is returned
PostProbe(n, connected) ==
  /\ req[n].kind = "post_message" /\ req[n].pc = "probe"
  /\ LET p == Peers(n)[req[n].idx]
         peer_info == GetPeerStatus(p, connected)
         up == peer_info.status = "success" /\ peer_info.active
         active_peers == IF up /\ ~peer_info.simulate_offline
                         THEN Append(req[n].active_peers, PeerEntry(p, peer_info))
                         ELSE req[n].active_peers
         offline_nodes == IF up /\ peer_info.simulate_offline
                          THEN Append(req[n].offline_nodes, PeerEntry(p, peer_info))
                          ELSE req[n].offline_nodes
     IN IF req[n].idx < Len(Peers(n))
        THEN /\ req' = [req EXCEPT ![n].idx = @ + 1, ![n].active_peers = active_peers,
                                   ![n].offline_nodes = offline_nodes,
                                   ![n].answered = IF connected THEN @ \cup {p} ELSE @]
             /\ UNCHANGED last
        ELSE IF Len(active_peers) = 0
        THEN /\ last' = PostAnswer(n, EmptyReport(offline_nodes))
             /\ req' = [req EXCEPT ![n] = Idle]
        ELSE /\ req' = [req EXCEPT ![n].idx = 1, ![n].pc = "push",
                                   ![n].active_peers = active_peers,
                                   ![n].offline_nodes = offline_nodes,
                                   ![n].answered = {}]
             /\ UNCHANGED last
  /\ Served(IF connected THEN {Peers(n)[req[n].idx]} ELSE {})
  /\ UNCHANGED <<now, nodeVars, used>>

\* a variant that tries a failed push a second time
PostPush_Retrying(n, connected) ==
  /\ req[n].kind = "post_message" /\ req[n].pc = "push"
  /\ LET peer_info == req[n].active_peers[req[n].idx]
         p == peer_info.port
         response == HandleSync(p, ToDict(req[n].message))
         ok == connected /\ response.status = "success"
         again == ~ok /\ \A i \in 1..Len(req[n].failed_to) : req[n].failed_to[i].port # p
         sent_to == IF ok THEN Append(req[n].sent_to, peer_info) ELSE req[n].sent_to
         failed_to == IF ok \/ ~again THEN req[n].failed_to
                      ELSE Append(req[n].failed_to, peer_info)
     IN /\ IF connected
           THEN /\ messages' = [messages EXCEPT ![p] = response.messages]
                /\ message_ids' = [message_ids EXCEPT ![p] = response.ids]
           ELSE UNCHANGED <<messages, message_ids>>
        /\ IF again
           THEN /\ req' = [req EXCEPT ![n].failed_to = failed_to]
                /\ UNCHANGED last
           ELSE IF req[n].idx < Len(req[n].active_peers)
           THEN /\ req' = [req EXCEPT ![n].idx = @ + 1, ![n].sent_to = sent_to,
                                      ![n].failed_to = failed_to]
                /\ UNCHANGED last
           ELSE /\ last' = PostAnswer(n, FinalReport(req[n].active_peers, sent_to, failed_to,
                                                     req[n].offline_nodes))
                /\ req' = [req EXCEPT ![n] = Idle]
  /\ Served(IF connected THEN {req[n].active_peers[req[n].idx].port} ELSE {})
  /\ UNCHANGED <<now, active, current_user, simulate_offline, was_offline, logged_users,
                 used>>

\* Node._replicate_message_with_report, one turn of the loop that pushes to
\* active_peers; after the last turn the report is returned
PostPush(n, connected) ==
  /\ req[n].kind = "post_message" /\ req[n].pc = "push"
  /\ LET peer_info == req[n].active_peers[req[n].idx]
         p == peer_info.port
         response == HandleSync(p, ToDict(req[n].message))
         ok == connected /\ response.status = "success"
         sent_to == IF ok THEN Append(req[n].sent_to, peer_info) ELSE req[n].sent_to
         failed_to == IF ok THEN req[n].failed_to ELSE Append(req[n].failed_to, peer_info)
     IN /\ IF connected
           THEN /\ messages' = [messages EXCEPT ![p] = response.messages]
                /\ message_ids' = [message_ids EXCEPT ![p] = response.ids]
           ELSE UNCHANGED <<messages, message_ids>>
        /\ IF req[n].idx < Len(req[n].active_peers)
           THEN /\ req' = [req EXCEPT ![n].idx = @ + 1, ![n].sent_to = sent_to,
                                      ![n].failed_to = failed_to]
                /\ UNCHANGED last
           ELSE /\ last' = PostAnswer(n, FinalReport(req[n].active_peers, sent_to, failed_to,
                                                     req[n].offline_nodes))
                /\ req' = [req EXCEPT ![n] = Idle]
  /\ Served(IF connected THEN {req[n].active_peers[req[n].idx].port} ELSE {})
  /\ UNCHANGED <<now, active, current_user, simulate_offline, was_offline, logged_users,
                 used>>

(* --------------------------- specifications ---------------------------- *)
\* readings of the clock at or after the last one
Readings == {t \in 1..MaxClock : t >= now}

\* a token that validates on no node: never issued, or revoked
DeadToken == <<"md5", "revoked", 0>>

\* the tokens a client sends to node n: one that validates there, or one that does not
Presented(n) == DOMAIN logged_users[n] \cup {DeadToken}

\* MessageClient.logout: a logout request with one of these tokens
LogoutRequest(n, how) == \E t \in Presented(n) : Logout(n, t, how)

\* MessageClient.post_message: a post_message request with one of these tokens
PostRequest(n, how) ==
  \E t \in Presented(n), c \in Contents, f \in PostFields, r \in Readings :
    PostBegin(n, t, c, f, r, how)

\* MessageClient.toggle_offline_simulation: the request carries the session's token
ToggleRequest(n, how) == \E t \in Presented(n) : ToggleOffline(n, t, how)

\* MessageClient.read_messages: with the session's token, or with none
GetRequest(n, how) == \E t \in Presented(n) \cup {NoToken} : GetBegin(n, t, how)

\* a request arrives at a node of N
Request(N, how) ==
  \/ \E n \in N, c \in Credentials : LoginBegin(n, c[1], c[2], how)
  \/ \E n \in N : LogoutRequest(n, how)
  \/ \E n \in N : PostRequest(n, how)
  \/ \E n \in N : ToggleRequest(n, how)

\* a get_messages request arrives at a node of N, or is answered
Reading(N, how) ==
  \/ \E n \in N : GetRequest(n, how)
  \/ \E n \in N : GetRead(n)

\* a handler in progress takes its next step; its call to a peer is
\* answered when connected and fails or times out otherwise
Step(Outcomes) ==
  \/ \E n \in Nodes, connected \in Outcomes : LoginProbe(n, connected)
  \/ \E n \in Nodes : LoginFinish(n)
  \/ \E n \in Nodes, connected \in Outcomes : PostProbe(n, connected)
  \/ \E n \in Nodes, connected \in Outcomes : PostPush(n, connected)

\* requests handled one after another, over a network that can fail
Next ==
  \/ Request(Nodes, Serial(MaxRequests))
  \/ Reading(Nodes, Serial(MaxRequests))
  \/ Step(BOOLEAN)

Spec == Init /\ [][Next]_vars

\* requests handled one after another, every peer call answered
NextReach ==
  \/ Request(Nodes, Serial(MaxRequests))
  \/ Reading(Nodes, Serial(MaxRequests))
  \/ Step({TRUE})

SpecReach == Init /\ [][NextReach]_vars

\* the same with more requests, none of them get_messages, addressed to the
\* nodes of PairNodes
NextPair ==
  \/ Request(PairNodes, Serial(MaxPairRequests))
  \/ Step({TRUE})

SpecPair == Init /\ [][NextPair]_vars

\* requests handled concurrently, over a network that can fail
NextConc ==
  \/ Request(Nodes, Threaded(MaxConcRequests))
  \/ Step(BOOLEAN)

SpecConc == Init /\ [][NextConc]_vars

\* readers and writers on the nodes of PairNodes, one request after another,
\* every peer call answered
NextRead ==
  \/ Request(PairNodes, Serial(MaxReadRequests))
  \/ Reading(PairNodes, Serial(MaxReadRequests))
  \/ Step({TRUE})

SpecRead == Init /\ [][NextRead]_vars

\* the credentials AuthManager.login accepts
ValidLogins ==
  {c \in Credentials : c[1] \in DOMAIN UserTable /\ UserTable[c[1]] = HashPassword(c[2])}

\* the node users post on in the runs that follow deliveries
Origin == 1

\* users log in anywhere, toggle the peers of Origin and post on Origin, one
\* request after another, over a network that can fail
NextDeliver ==
  \/ \E n \in Nodes, c \in ValidLogins :
        LoginBegin(n, c[1], c[2], Serial(MaxDeliverRequests))
  \/ \E n \in Nodes \ {Origin} : ToggleRequest(n, Serial(MaxDeliverRequests))
  \/ PostRequest(Origin, Serial(MaxDeliverRequests))
  \/ Step(BOOLEAN)

SpecDeliver == Init /\ [][NextDeliver]_vars

\* users log in, toggle and post on the nodes of PairNodes, each request
\* handled by its own thread, every peer call answered
NextToggle ==
  \/ \E n \in PairNodes, c \in ValidLogins :
        LoginBegin(n, c[1], c[2], Threaded(MaxToggleRequests))
  \/ \E n \in PairNodes : ToggleRequest(n, Threaded(MaxToggleRequests))
  \/ \E n \in PairNodes : PostRequest(n, Threaded(MaxToggleRequests))
  \/ Step({TRUE})

SpecToggle == Init /\ [][NextToggle]_vars

\* clients log in, log out, toggle and ask for the status on the nodes of
\* PairNodes, one request after another, every peer call answered
NextStatus ==
  \/ \E n \in PairNodes, c \in Credentials :
        LoginBegin(n, c[1], c[2], Serial(MaxStatusRequests))
  \/ \E n \in PairNodes : LogoutRequest(n, Serial(MaxStatusRequests))
  \/ \E n \in PairNodes : ToggleRequest(n, Serial(MaxStatusRequests))
  \/ \E n \in PairNodes : CheckStatus(n, Serial(MaxStatusRequests))
  \/ \E n \in Nodes, connected \in {TRUE} : LoginProbe(n, connected)
  \/ \E n \in Nodes : LoginFinish(n)

SpecStatus == Init /\ [][NextStatus]_vars

\* the messages sync requests carry: Message.to_dict of messages of admin;
\* the id and the timestamp come from two readings of the clock
Pool ==
  {[id |-> i, content |-> "hello", author |-> "admin", message_type |-> "public",
    timestamp |-> t] : i \in 1..MaxPoolId, t \in 1..MaxPoolStamp}

\* users log in on Origin and sync requests bring it messages of the pool,
\* one request after another, every peer call answered
NextSync ==
  \/ \E c \in ValidLogins : LoginBegin(Origin, c[1], c[2], Serial(MaxSyncRequests))
  \/ \E d \in Pool : SyncRequest(Origin, d, Serial(MaxSyncRequests))
  \/ \E connected \in {TRUE} : LoginProbe(Origin, connected)
  \/ LoginFinish(Origin)

SpecSync == Init /\ [][NextSync]_vars

\* users log in on Origin and sync requests bring it messages of the pool,
\* each request handled by its own thread, which can be preempted between the
\* test and the append of Node._add_message; every peer call answered
NextAdd ==
  \/ \E c \in ValidLogins : LoginBegin(Origin, c[1], c[2], Threaded(MaxAddRequests))
  \/ \E d \in Pool : SyncBegin(Origin, d, Threaded(MaxAddRequests))
  \/ \E d \in Pool : SyncRequest(Origin, d, Threaded(MaxAddRequests))
  \/ SyncAppend(Origin)
  \/ \E connected \in {TRUE} : LoginProbe(Origin, connected)
  \/ LoginFinish(Origin)

SpecAdd == Init /\ [][NextAdd]_vars

\* the tokens AuthManager._generate_token can have issued to the users
Issued == {<<"md5", u, k>> : u \in Users, k \in 0..(MaxSessions - 1)}

\* users log in on the nodes of PairNodes, post on Origin and log out there
\* with any token that was ever issued or with one that never was, one
\* request after another, every peer call answered
NextRevoke ==
  \/ \E n \in PairNodes, c \in ValidLogins :
        LoginBegin(n, c[1], c[2], Serial(MaxRevokeRequests))
  \/ PostRequest(Origin, Serial(MaxRevokeRequests))
  \/ \E t \in Issued \cup {DeadToken} : Logout(Origin, t, Serial(MaxRevokeRequests))
  \/ Step({TRUE})

SpecRevoke == Init /\ [][NextRevoke]_vars

\* the next step of the handler in progress on node n: its thread runs, and
\* its call to a peer returns or times out
Handler(n) ==
  \/ \E connected \in BOOLEAN : LoginProbe(n, connected)
  \/ LoginFinish(n)
  \/ \E connected \in BOOLEAN : PostProbe(n, connected)
  \/ \E connected \in BOOLEAN : PostPush(n, connected)

\* users log in and post on the nodes of PairNodes, each request handled by
\* its own thread, over a network that can fail
NextLive ==
  \/ \E n \in PairNodes, c \in ValidLogins :
        LoginBegin(n, c[1], c[2], Threaded(MaxLiveRequests))
  \/ \E n \in PairNodes : PostRequest(n, Threaded(MaxLiveRequests))
  \/ Step(BOOLEAN)

\* every thread is scheduled, and socket.settimeout(3) ends every call to a peer
SpecLive == Init /\ [][NextLive]_vars /\ \A n \in Nodes : WF_vars(Handler(n))

\* users log in on the nodes of PairNodes and post, toggle and read on
\* Origin, each request handled by its own thread, every peer call answered
NextRace ==
  \/ \E n \in PairNodes, c \in ValidLogins :
        LoginBegin(n, c[1], c[2], Threaded(MaxRaceRequests))
  \/ PostRequest(Origin, Threaded(MaxRaceRequests))
  \/ ToggleRequest(Origin, Threaded(MaxRaceRequests))
  \/ Reading({Origin}, Threaded(MaxRaceRequests))
  \/ Step({TRUE})

SpecRace == Init /\ [][NextRace]_vars

(* ------------------------------ properties ----------------------------- *)
\* node n holds a live token of username u
Live(n, u) == \E t \in DOMAIN logged_users[n] : logged_users[n][t] = u

\* the same after the step
LiveAfter(n, u) == \E t \in DOMAIN logged_users'[n] : logged_users'[n][t] = u

\* the messages of node n, as a set
Stored(n) == {messages[n][i] : i \in 1..Len(messages[n])}

\* the ports named in a list of the delivery report
Ports(entries) == {entries[i].port : i \in 1..Len(entries)}

\* steps of the handlers, seen from the state
PostAccepted(n) == req[n].kind = "idle" /\ req'[n].kind = "post_message"
PostReturned(n) == req[n].kind = "post_message" /\ req'[n].kind = "idle"
PostRejected(n) ==
  /\ last' # last /\ last'.node = n
  /\ last'.action = "post_message" /\ last'.status = "error"
LoginFinished(n) == req[n].kind = "login" /\ req[n].pc = "finish" /\ req'[n].kind = "idle"
LoginAnswered(n) == req[n].kind = "login" /\ req'[n].kind = "idle"
LogoutAnswered(n) == last' # last /\ last'.node = n /\ last'.action = "logout"
ValidCredentials(n) ==
  /\ req[n].username \in DOMAIN UserTable
  /\ UserTable[req[n].username] = HashPassword(req[n].password)

\* C1 (as claimed): every accepted post_message adds exactly one message to
\* the origin's store, and it returns status success with a delivery report
\* while the message is in the origin's store, whatever the peers do.
C1_Orig ==
  [][\A n \in Nodes :
       /\ PostAccepted(n) =>
            /\ Len(messages'[n]) = Len(messages[n]) + 1
            /\ req'[n].message \in Stored(n)'
       /\ PostReturned(n) =>
            /\ last'.node = n /\ last'.status = "success"
            /\ last'.delivery_report.type # None
            /\ last'.msg \in Stored(n)']_vars

\* C2 (as claimed): when post_message has returned, every peer the delivery
\* report counts as having received the message holds a message equal in id,
\* author, content and visibility to the origin's copy of that id.
C2_Orig ==
  (last.action = "post_message" /\ last.status = "success") =>
    \A p \in Ports(last.delivery_report.sent_to) :
      \E m \in Stored(p) :
        /\ m.id = last.msg.id
        /\ \E o \in Stored(last.node) :
             /\ o.id = m.id /\ o.author = m.author /\ o.content = m.content
             /\ o.message_type = m.message_type

\* C3: post_message checks active, then simulate_offline, then the token, and
\* the first failure decides the error; a rejected post changes no node's
\* store or session and starts no probe or push; a post is accepted only
\* when all three checks pass.
C3_PostPreconditions ==
  [][\A n \in Nodes :
       /\ PostRejected(n) =>
            /\ IF ~active[n] THEN last'.message = "node_inactive"
               ELSE IF simulate_offline[n] THEN last'.message = "node_offline"
               ELSE /\ last'.message = "invalid_token"
                    /\ last'.token \notin DOMAIN logged_users[n]
            /\ UNCHANGED <<nodeVars, req>>
       /\ PostAccepted(n) =>
            /\ active[n] /\ ~simulate_offline[n]
            /\ req'[n].token \in DOMAIN logged_users[n]]_vars

\* C3 witness: a post with a token that does not validate was answered
\* node_offline by an active node that simulates offline
C3_Witness ==
  /\ last.action = "post_message" /\ last.message = "node_offline"
  /\ last.node \in Nodes
  /\ active[last.node] /\ simulate_offline[last.node]
  /\ last.token \notin DOMAIN logged_users[last.node]

\* C4 (as claimed): while a successful login of u on node A has not been
\* logged out and A answers, a login of u on peer B is answered with an
\* error that names A and leaves B's active, current_user and tokens as they were.
C4_Orig ==
  [][\A B \in Nodes : \A A \in Nodes \ {B} :
       (LoginAnswered(B) /\ Live(A, req[B].username) /\ ~was_offline[A]) =>
          /\ last'.status = "error"
          /\ last'.message = "already_connected_on_peer"
          /\ last'.conflict = A
          /\ UNCHANGED <<active, current_user, logged_users>>]_vars

\* C5 (as claimed): with requests handled one at a time and every node
\* reachable, no username holds a live token on two nodes at once.
C5_Orig ==
  \A u \in Users : \A A, B \in Nodes : (A # B) => ~(Live(A, u) /\ Live(B, u))

\* C6 (as claimed): when the peer on which u is logged in does not answer the
\* probe, a login of u with valid credentials on B succeeds and u is logged
\* in on both nodes.
C6_Orig ==
  [][\A B \in Nodes : \A A \in Nodes \ {B} :
       ( /\ LoginFinished(B) /\ ValidCredentials(B)
         /\ current_user[B] # req[B].username
         /\ active[A] /\ current_user[A] = req[B].username ) =>
          /\ last'.status = "success"
          /\ LiveAfter(B, req[B].username) /\ LiveAfter(A, req[B].username)]_vars

\* C7 (as claimed): a login with valid credentials of a username that is not
\* the node's current_user and that no answering peer reports active returns
\* success with a token that validates to the username and sets active and
\* current_user, also after the node has simulated offline.
C7_Orig ==
  [][\A n \in Nodes :
       ( /\ LoginFinished(n) /\ ValidCredentials(n)
         /\ current_user[n] # req[n].username ) =>
          /\ last'.status = "success"
          /\ last'.new_token \in DOMAIN logged_users'[n]
          /\ logged_users'[n][last'.new_token] = req[n].username
          /\ active'[n] /\ current_user'[n] = req[n].username]_vars

\* C8: a logout with a token that validates succeeds, revokes the token and
\* sets active to false and current_user to empty, whatever simulate_offline
\* is and whether or not a replication is in progress; the message store
\* and simulate_offline are unchanged.
C8_Logout ==
  [][\A n \in Nodes :
       (LogoutAnswered(n) /\ last'.token \in DOMAIN logged_users[n]) =>
          /\ last'.status = "success"
          /\ last'.token \notin DOMAIN logged_users'[n]
          /\ ~active'[n] /\ current_user'[n] = None
          /\ UNCHANGED <<messages, message_ids, simulate_offline>>]_vars

\* C8 witness: a logout succeeded on a node whose post_message is inside
\* _replicate_message_with_report, past its first peer
C8_Witness ==
  /\ last.action = "logout" /\ last.status = "success" /\ last.node \in Nodes
  /\ req[last.node].kind = "post_message" /\ req[last.node].idx = 2
  /\ ~active[last.node] /\ last.token \notin DOMAIN logged_users[last.node]

\* C9 (as claimed): when active node B leaves simulate_offline and the peer
\* that posted while B simulated offline answers, B's store contains the
\* messages posted meanwhile.
C9_Orig ==
  [][\A B \in Nodes :
       ( /\ simulate_offline[B] /\ ~simulate_offline'[B] /\ active[B]
         /\ last.action = "post_message" /\ last.status = "success"
         /\ B \in Ports(last.delivery_report.offline_nodes) ) =>
          last.msg.id \in message_ids'[B]]_vars

\* C10 (as claimed): once no handler is running, a node that is active and
\* not simulating offline holds every message held by a peer that answers it.
C10_Orig ==
  AllIdle =>
    \A n \in Nodes : \A p \in Nodes \ {n} :
      (active[n] /\ ~simulate_offline[n]) => message_ids[p] \subseteq message_ids[n]

\* messages a post or a sync can hand to _add_message
Candidates ==
  {NewMessage(c, u, mt, t) : c \in Contents, u \in Users, mt \in MessageTypes, t \in 1..MaxClock}

\* C11: adding a message whose id is already in a node's store leaves the
\* store (size, contents, order) as it is and returns false; adding a message
\* with a new id inserts it, keeps what was stored and returns true.
C11_AddIdempotent ==
  \A n \in Nodes : \A m \in Candidates :
    LET r == AddMessage(messages[n], message_ids[n], m)
        held == \E i \in 1..Len(messages[n]) : messages[n][i].id = m.id
    IN IF held
       THEN r.messages = messages[n] /\ ~r.added
       ELSE /\ r.added
            /\ Len(r.messages) = Len(messages[n]) + 1
            /\ \E i \in 1..Len(r.messages) : r.messages[i] = m
            /\ \A j \in 1..Len(messages[n]) :
                 \E i \in 1..Len(r.messages) : r.messages[i] = messages[n][j]

\* C11 witness: a post whose message got an id the store already held was
\* not inserted
C11_Witness ==
  \E n \in Nodes :
    /\ req[n].kind = "post_message"
    /\ req[n].message.id \in message_ids[n]
    /\ req[n].message \notin Stored(n)
    /\ Len(messages[n]) = 1

\* steps of the get_messages handler, seen from the state
GetEntered(n) == req[n].kind = "idle" /\ req'[n].kind = "get_messages"
GetAnswered(n) == req[n].kind = "get_messages" /\ req'[n].kind = "idle"

\* the place in node n's store of the message with the id of dict d
IndexOf(n, d) == CHOOSE i \in 1..Len(messages[n]) : messages[n][i].id = d.id

ClientPrivate == [message_type |-> None, visibility |-> "private", author |-> None]

\* C13 (as claimed): a message posted as private through the client is
\* stored with private visibility on the origin, and is not returned by
\* get_messages to a request without a valid token.
C13_Orig ==
  [][\A n \in Nodes : \A t \in DOMAIN logged_users[n] : \A c \in Contents :
       \A r \in 1..MaxClock :
         (PostBegin(n, t, c, ClientPrivate, r, Serial(MaxRequests)) /\ PostAccepted(n)) =>
            /\ req'[n].message.message_type = "private"
            /\ \A i \in 1..Len(Listing(n, FALSE)') :
                 Listing(n, FALSE)'[i].id # req'[n].message.id]_vars

(* --------------------------- delivery reports -------------------------- *)
\* a peer as the probe of Node._replicate_message_with_report classifies it
Online(p) == active[p] /\ ~simulate_offline[p]
ActiveOffline(p) == active[p] /\ simulate_offline[p]

\* the step is the last turn of the probing loop of node n, with outcome c
LastProbe(n, c) ==
  /\ req[n].kind = "post_message" /\ req[n].pc = "probe"
  /\ req[n].idx = Len(Peers(n))
  /\ PostProbe(n, c)

\* the peers that answered the probes of node n, the last one included
Probed(n, c) == req[n].answered \cup (IF c THEN {Peers(n)[req[n].idx]} ELSE {})

\* the names a part of the report's message carries
Named(names) == {names[i] : i \in 1..Len(names)}

\* user(port) of a set of peers
UserPortOf(ps) == {<<current_user[p], p>> : p \in ps}

\* C14 (as claimed): an accepted post that finds no reachable peer that is
\* active and not simulating offline, and at least one reachable peer with
\* simulate_offline = true, returns a report of type recipients_offline that
\* names every such simulating peer.
C14_Orig ==
  [][\A n \in Nodes, c \in BOOLEAN :
       LET simulating == {p \in Probed(n, c) : simulate_offline[p]}
       IN (/\ LastProbe(n, c)
           /\ {p \in Probed(n, c) : Online(p)} = {}
           /\ simulating # {})
          => /\ PostReturned(n)
             /\ last'.delivery_report.type = "recipients_offline"
             /\ UserPortOf(simulating) \subseteq Named(last'.delivery_report.names.offline)]_vars

\* C14 (amended): an accepted post that finds no reachable peer that is active
\* and not simulating offline, and at least one reachable peer that is active
\* and simulating offline, returns a report of type recipients_offline whose
\* message names exactly the active simulating peers.
C14_Amended ==
  [][\A n \in Nodes, c \in BOOLEAN :
       LET offline == {p \in Probed(n, c) : ActiveOffline(p)}
       IN (/\ LastProbe(n, c)
           /\ {p \in Probed(n, c) : Online(p)} = {}
           /\ offline # {})
          => /\ PostReturned(n)
             /\ last'.delivery_report.type = "recipients_offline"
             /\ Named(last'.delivery_report.names.offline) = UserPortOf(offline)
             /\ Ports(last'.delivery_report.offline_nodes) = offline]_vars

\* C14 witness: a post returned a report of type recipients_offline that
\* names a peer which is active and simulates offline
C14_Witness ==
  /\ last.action = "post_message" /\ last.status = "success"
  /\ last.delivery_report.type = "recipients_offline"
  /\ \E p \in Nodes \ {last.node} :
       /\ ActiveOffline(p)
       /\ <<current_user[p], p>> \in Named(last.delivery_report.names.offline)

\* C15: an accepted post that finds no reachable peer that is active and not
\* simulating offline, and no reachable peer that simulates offline, returns
\* from the probing loop with a report of type no_recipients, and no store
\* of any node changes: nothing was pushed.
C15_NoRecipients ==
  [][\A n \in Nodes, c \in BOOLEAN :
       (/\ LastProbe(n, c)
        /\ {p \in Probed(n, c) : Online(p)} = {}
        /\ {p \in Probed(n, c) : simulate_offline[p]} = {})
       => /\ PostReturned(n)
          /\ last'.status = "success"
          /\ last'.delivery_report.type = "no_recipients"
          /\ last'.delivery_report.sent_to = <<>>
          /\ last'.delivery_report.failed_to = <<>>
          /\ UNCHANGED <<messages, message_ids>>]_vars

\* C15 witness: a post returned a report of type no_recipients although a
\* peer is active and not simulating offline: no peer was reachable
C15_Witness ==
  /\ last.action = "post_message" /\ last.status = "success"
  /\ last.delivery_report.type = "no_recipients"
  /\ \E p \in Nodes \ {last.node} : Online(p)
  /\ \A p \in Nodes \ {last.node} : last.msg.id \notin message_ids[p]

\* the last answer is that of an accepted post whose probes found at least
\* one peer active and not simulating offline
Pushed ==
  /\ last.action = "post_message" /\ last.status = "success"
  /\ last.delivery_report.total_possible_recipients >= 1

\* C16: when a post found at least one peer active and not simulating
\* offline and no push failed, the report is of type all_received, it counts
\* every such peer as sent, and each of them holds a message of that id,
\* however many other peers there are.
C16_AllReceived ==
  (Pushed /\ last.delivery_report.failed_to = <<>>)
    => /\ last.delivery_report.type = "all_received"
       /\ Len(last.delivery_report.sent_to) = last.delivery_report.total_possible_recipients
       /\ \A p \in Ports(last.delivery_report.sent_to) : last.msg.id \in message_ids[p]

\* C16 witness: a post was reported all_received with one recipient while the
\* other peer of the origin received nothing
C16_Witness ==
  /\ Pushed /\ last.delivery_report.type = "all_received"
  /\ last.delivery_report.total_possible_recipients = 1
  /\ \E p \in Nodes \ {last.node} :
       /\ p \notin Ports(last.delivery_report.sent_to)
       /\ last.msg.id \notin message_ids[p]

\* C17: when at least one push of a post succeeded and at least one failed,
\* the report is of type partial_received, its message names exactly the
\* peers whose push succeeded as received and exactly the peers whose push
\* failed as not received, and the two lists share no peer and together make
\* up the peers found active and not simulating offline.
C17_PartialReceived ==
  (/\ Pushed
   /\ last.delivery_report.sent_to # <<>>
   /\ last.delivery_report.failed_to # <<>>)
    => LET rep == last.delivery_report
       IN /\ rep.type = "partial_received"
          /\ rep.names.received = UserPorts(rep.sent_to)
          /\ rep.names.not_received = UserPorts(rep.failed_to)
          /\ Named(rep.names.received) = UserPortOf(Ports(rep.sent_to))
          /\ Named(rep.names.not_received) = UserPortOf(Ports(rep.failed_to))
          /\ Ports(rep.sent_to) \cap Ports(rep.failed_to) = {}
          /\ Len(rep.sent_to) + Len(rep.failed_to) = rep.total_possible_recipients
          /\ \A p \in Ports(rep.sent_to) : last.msg.id \in message_ids[p]

\* C17 witness: a post was reported partial_received, one peer named as
\* received and holding the message, the other named as not received
C17_Witness ==
  /\ Pushed /\ last.delivery_report.type = "partial_received"
  /\ \E p, q \in Nodes \ {last.node} :
       /\ p # q
       /\ <<current_user[p], p>> \in Named(last.delivery_report.names.received)
       /\ <<current_user[q], q>> \in Named(last.delivery_report.names.not_received)
       /\ last.msg.id \in message_ids[p]

\* C18 (as claimed): when a post found at least one peer active and not
\* simulating offline and every push failed, the report is of type
\* delivery_failed, the post returns status success, and the message is in
\* the origin's store.
C18_Orig ==
  (Pushed /\ last.delivery_report.sent_to = <<>>)
    => /\ last.delivery_report.type = "delivery_failed"
       /\ last.status = "success"
       /\ last.msg \in Stored(last.node)

(* ------------------------------- tokens -------------------------------- *)
\* the live tokens of username u at node n
TokensOf(n, u) == {t \in DOMAIN logged_users[n] : logged_users[n][t] = u}

\* C19 (as claimed): no two successful logins on one node return the same
\* token: the token of a successful login is not the one the node has just
\* revoked by a logout, and it is not the token of a live session.
C19_Orig ==
  [][\A n \in Nodes :
       (LoginFinished(n) /\ last'.status = "success")
       => /\ last'.new_token \notin DOMAIN logged_users[n]
          /\ ~(/\ last.action = "logout" /\ last.status = "success" /\ last.node = n
               /\ last.token = last'.new_token)]_vars

\* C20 (as claimed): in every reachable state each username has at most one
\* live token in each node's token map.
C20_Orig ==
  \A n \in Nodes, u \in Users : Cardinality(TokensOf(n, u)) <= 1

(* ------------------------------ node state ----------------------------- *)
\* C21 (as claimed): in every reachable state an active node's token map
\* holds exactly one live session, and it belongs to current_user.
C21_Orig ==
  \A n \in Nodes :
    active[n] => /\ Cardinality(DOMAIN logged_users[n]) = 1
                 /\ \A t \in DOMAIN logged_users[n] : logged_users[n][t] = current_user[n]

\* the step hands a sync request of node m to peer p
SyncHandled(m, p) ==
  /\ req[m].kind = "post_message" /\ req[m].pc = "push"
  /\ req[m].active_peers[req[m].idx].port = p
  /\ PostPush(m, TRUE)

\* the peers counted as failed once the step is taken
FailedAfter(m) ==
  IF req'[m].kind = "post_message" THEN Ports(req'[m].failed_to)
  ELSE Ports(last'.delivery_report.failed_to)

C23_CheckStatus ==
  [][\A n \in Nodes :
       CheckStatus(n, Serial(MaxStatusRequests))
       => /\ last'.node = n /\ last'.action = "check_status"
          /\ last'.node_status.status = "success"
          /\ last'.node_status.node_id = n
          /\ last'.node_status.active = active[n]
          /\ last'.node_status.user = current_user[n]
          /\ last'.node_status.simulate_offline = simulate_offline[n]
          /\ UNCHANGED <<nodeVars, req, now>>]_vars

\* C23 witness: a node that is active and simulates offline answered a
\* check_status request with its user and both flags true
C23_Witness ==
  /\ last.action = "check_status"
  /\ last.node \in Nodes /\ ActiveOffline(last.node)
  /\ last.node_status.active /\ last.node_status.simulate_offline
  /\ last.node_status.user = current_user[last.node]
  /\ last.node_status.user # None

\* C24: a toggle_offline request is accepted whether the node is active or
\* not, negates simulate_offline of that node only and leaves active,
\* current_user, the token maps and the stores unchanged; the steps of login
\* and logout leave simulate_offline unchanged.
C24_Orthogonal ==
  [][\A n \in Nodes :
       /\ ToggleRequest(n, Serial(MaxStatusRequests))
            => /\ last'.action = "toggle_offline" /\ last'.status = "success"
               /\ simulate_offline' = [simulate_offline EXCEPT ![n] = ~simulate_offline[n]]
               /\ last'.simulate_offline = simulate_offline'[n]
               /\ UNCHANGED <<active, current_user, logged_users, messages, message_ids>>
       /\ (\/ LoginAnswered(n) \/ LogoutAnswered(n)
           \/ active'[n] # active[n] \/ current_user'[n] # current_user[n]
           \/ logged_users'[n] # logged_users[n])
            => UNCHANGED simulate_offline]_vars

\* C24 witness: a toggle_offline request started the simulation on a node
\* that is active and keeps its user and the user's session
C24_Witness ==
  /\ last.action = "toggle_offline" /\ last.simulate_offline
  /\ last.node \in Nodes /\ ActiveOffline(last.node)
  /\ Live(last.node, current_user[last.node])

(* ------------------------------- messages ------------------------------ *)
\* the messages node p holds after the step and did not hold before
Added(p) == {m \in Stored(p)' : m \notin Stored(p)}

\* C25: the message an accepted post creates has as author the username the
\* node's token map binds to the request's token, whatever the request
\* supplies, and a message a peer stores on a push is the origin's message,
\* author included.
C25_Author ==
  [][\A n \in Nodes :
       /\ PostAccepted(n)
            => /\ req'[n].token \in DOMAIN logged_users[n]
               /\ req'[n].message.author = logged_users[n][req'[n].token]
               /\ \A m \in Added(n) : m = req'[n].message
               /\ \A p \in Nodes \ {n} : Added(p) = {}
       /\ \A c \in BOOLEAN :
            (req[n].kind = "post_message" /\ req[n].pc = "push" /\ PostPush(n, c))
            => \A p \in Nodes :
                 \A m \in Added(p) : /\ m = req[n].message
                                      /\ m.author = req[n].username]_vars

\* C25 witness: a post of user1 that supplied admin as author was pushed, and
\* the origin and a peer hold the message with user1 as author
C25_Witness ==
  /\ last.action = "post_message" /\ last.status = "success"
  /\ last.username = "user1" /\ last.msg.message_type = "private"
  /\ last.msg.author = "user1"
  /\ last.msg \in Stored(last.node)
  /\ \E p \in Ports(last.delivery_report.sent_to) : last.msg \in Stored(p)

(* ------------------------------ termination ---------------------------- *)
\* C26: every login and every post_message request that a node handles is
\* eventually answered, whether the peers answer or not, also while another
\* node is probing this one.
C26_Returns ==
  \A n \in Nodes : (req[n].kind \in {"login", "post_message"}) ~> (req[n].kind = "idle")

\* C26 witness: two nodes handle a login at the same time, each in the loop
\* that probes the other
C26_Witness ==
  \E n \in Nodes, m \in Nodes :
    /\ n # m
    /\ req[n].kind = "login" /\ req[n].pc = "probe"
    /\ req[m].kind = "login" /\ req[m].pc = "probe"

\* a list of messages is in the order of list.sort(key=timestamp)
Sorted(msgs) ==
  \A i \in 1..Len(msgs), j \in 1..Len(msgs) :
    i < j => msgs[i].timestamp <= msgs[j].timestamp

\* C27: in every reachable state the message list of each node is ordered
\* by non-decreasing timestamp, and no step removes or alters a message a
\* node holds.
C27_SortedAppendOnly ==
  /\ [](\A n \in Nodes : Sorted(messages[n]))
  /\ [][\A n \in Nodes :
          /\ Stored(n) \subseteq Stored(n)'
          /\ message_ids[n] \subseteq message_ids'[n]
          /\ Len(messages'[n]) >= Len(messages[n])]_vars

\* C27 witness: a push brought a peer a message older than one the peer
\* already held (its own post had returned before), and the peer holds both
C27_Witness ==
  /\ last.action = "post_message" /\ last.status = "success"
  /\ \E p \in Ports(last.delivery_report.sent_to) :
       /\ req[p].kind = "idle"
       /\ last.msg \in Stored(p)
       /\ messages[p][1] = last.msg
       /\ \E m \in Stored(p) : /\ m.timestamp > last.msg.timestamp
                                /\ m.author = current_user[p]
                                /\ m \in Stored(last.node)

\* the ids of a list of messages, in the order of the list
IdsOf(msgs) == [i \in 1..Len(msgs) |-> msgs[i].id]

\* the store of an active, online node after sync requests deliver the
\* messages of the list ds to a node whose store is store
RECURSIVE Delivered(_, _)
Delivered(store, ds) ==
  IF ds = <<>> THEN store
  ELSE LET r == AddMessage(store.messages, store.ids, FromDict(ds[1], now))
       IN Delivered([messages |-> r.messages, ids |-> r.ids], Tail(ds))

\* C28 (as claimed): for messages with distinct timestamps delivered by sync
\* requests to an active, online node, the ids the store holds and their
\* order are the same for either order of arrival and for a repeated
\* delivery.
C28_Orig ==
  \A n \in Nodes :
    (active[n] /\ ~simulate_offline[n]) =>
      LET store == [messages |-> messages[n], ids |-> message_ids[n]]
      IN \A d1 \in Pool, d2 \in Pool :
           (/\ d1.timestamp # d2.timestamp
            /\ \A m \in Stored(n) : m.timestamp \notin {d1.timestamp, d2.timestamp})
           => /\ IdsOf(Delivered(store, <<d1, d2>>).messages)
                   = IdsOf(Delivered(store, <<d2, d1>>).messages)
              /\ Delivered(store, <<d1, d2>>).ids = Delivered(store, <<d2, d1>>).ids
              /\ Delivered(store, <<d1, d1>>) = Delivered(store, <<d1>>)

(* ------------------------------ replication ---------------------------- *)
\* the step is a turn of the pushing loop of node n, with outcome c
PushStep(n, c) ==
  /\ req[n].kind = "post_message" /\ req[n].pc = "push"
  /\ PostPush(n, c)

\* the peer the pushing loop of node n is at
PushTarget(n) == req[n].active_peers[req[n].idx].port

\* C29: every turn of the pushing loop of a post makes one call, to a peer
\* not yet called for this post, and moves on to the next peer or returns,
\* whatever the outcome; a message enters a node's store only by the node's
\* own accepted post or by the push of the post in progress that created it,
\* so that nothing is pushed once the post has returned.
C29_FireAndForget ==
  [][\A n \in Nodes :
       /\ \A c \in BOOLEAN :
            PushStep(n, c)
            => /\ PushTarget(n) \notin Ports(req[n].sent_to) \cup Ports(req[n].failed_to)
               /\ PushTarget(n) # n
               /\ \/ PostReturned(n)
                  \/ /\ req'[n].kind = "post_message" /\ req'[n].pc = "push"
                     /\ req'[n].idx = req[n].idx + 1
                     /\ req'[n].message = req[n].message
               /\ \A p \in Nodes \ {PushTarget(n)} : Added(p) = {}
       /\ \A m \in Added(n) :
            \/ PostAccepted(n) /\ m = req'[n].message
            \/ \E o \in Nodes \ {n}, c \in BOOLEAN :
                 PushStep(o, c) /\ PushTarget(o) = n /\ m = req[o].message]_vars

\* C29 witness: a later post of the origin was pushed to a peer that still
\* lacks an earlier message of the origin
C29_Witness ==
  /\ last.action = "post_message" /\ last.status = "success"
  /\ \E p \in Ports(last.delivery_report.sent_to) :
       /\ last.msg \in Stored(p)
       /\ \E m \in Stored(last.node) :
            /\ m.timestamp < last.msg.timestamp
            /\ m.author = last.username
            /\ m.id \notin message_ids[p]

(* --------------------------------- login ------------------------------- *)
\* C30 (as claimed): a login whose username is the node's current_user is
\* answered with the rejection already_connected_here, whatever the peers
\* report, and changes nothing on the node.
C30_Orig ==
  [][\A n \in Nodes :
       (LoginAnswered(n) /\ req[n].username = current_user[n])
       => /\ last'.node = n /\ last'.status = "error"
          /\ last'.message = "already_connected_here"
          /\ UNCHANGED nodeVars]_vars

(* ------------------------------ concurrency ---------------------------- *)
\* C31: a login that has passed the loop over the peers succeeds whatever the
\* peers have become since they were probed, so that two logins of one user
\* handled at the same time on two nodes, each probing the other before the
\* other activates, both succeed with every peer reachable.
C31_LoginRace ==
  [][\A n \in Nodes :
       (/\ LoginFinished(n) /\ ValidCredentials(n)
        /\ current_user[n] # req[n].username
        /\ ~ActivateRaises(n))
       => /\ last'.node = n /\ last'.action = "login" /\ last'.status = "success"
          /\ active'[n] /\ current_user'[n] = req[n].username
          /\ last'.new_token \in DOMAIN logged_users'[n]]_vars

\* C31 witness: the last login succeeded on a node while another node is
\* active with the same user and holds a live session of that user
C31_Witness ==
  /\ last.action = "login" /\ last.status = "success"
  /\ active[last.node] /\ current_user[last.node] = last.username
  /\ \E p \in Nodes \ {last.node} :
       /\ active[p] /\ current_user[p] = last.username
       /\ Live(p, last.username)
       /\ ~was_offline[p]

\* the step is a turn of the probing loop of node n, with outcome c
ProbeStep(n, c) ==
  /\ req[n].kind = "post_message" /\ req[n].pc = "probe"
  /\ PostProbe(n, c)

\* the ports a report names in its lists and in its message
ReportPorts(rep) ==
  Ports(rep.sent_to) \cup Ports(rep.failed_to) \cup Ports(rep.offline_nodes)
    \cup {x[2] : x \in Named(rep.names.received) \cup Named(rep.names.not_received)
                         \cup Named(rep.names.offline)}

\* C32: with requests handled one after another, a turn of the probing loop
\* of a post puts the peer among the recipients exactly when the peer
\* answered active and not simulating offline, a push goes only to such a
\* peer, and the report of a post names no peer that is inactive.
C32_Recipients ==
  [][\A n \in Nodes :
       /\ \A c \in BOOLEAN :
            (ProbeStep(n, c) /\ ~PostReturned(n))
            => LET p == Peers(n)[req[n].idx]
               IN /\ (c /\ Online(p))
                      => Ports(req'[n].active_peers) = Ports(req[n].active_peers) \cup {p}
                  /\ ~(c /\ Online(p))
                      => req'[n].active_peers = req[n].active_peers
                  /\ ~active[p] => req'[n].offline_nodes = req[n].offline_nodes
       /\ \A c \in BOOLEAN :
            PushStep(n, c)
            => /\ PushTarget(n) \in Ports(req[n].active_peers)
               /\ Online(PushTarget(n))
               /\ \A p \in Nodes \ {n} :
                    ~Online(p) => /\ messages'[p] = messages[p]
                                  /\ message_ids'[p] = message_ids[p]
       /\ PostReturned(n)
            => \A p \in Nodes \ {n} :
                 ~active[p] => p \notin ReportPorts(last'.delivery_report)]_vars

\* C32 witness: a post was pushed to its one recipient while the other peer,
\* inactive and simulating offline, received nothing and is not named
C32_Witness ==
  /\ Pushed /\ last.delivery_report.total_possible_recipients = 1
  /\ Len(last.delivery_report.sent_to) = 1
  /\ \E p \in Nodes \ {last.node} :
       /\ ~active[p] /\ simulate_offline[p]
       /\ p \notin ReportPorts(last.delivery_report)
       /\ last.msg.id \notin message_ids[p]

\* C33 (as claimed): under any interleaving of the requests a node handles,
\* a get_messages request whose own token does not validate on the node is
\* answered without any private message.
C33_Orig ==
  [][\A n \in Nodes :
       (GetAnswered(n) /\ req[n].token \notin DOMAIN logged_users[n])
       => \A k \in 1..Len(last'.messages) :
            last'.messages[k].message_type # "private"]_vars

\* C34 (as claimed): in every reachable state, also when threads handle sync
\* requests of one node concurrently, no two entries of a node's message list
\* have the same id and the node's id set is the set of ids of its list.
C34_Orig ==
  \A n \in Nodes :
    /\ \A i \in 1..Len(messages[n]), j \in 1..Len(messages[n]) :
         i # j => messages[n][i].id # messages[n][j].id
    /\ message_ids[n] = {messages[n][i].id : i \in 1..Len(messages[n])}

(* ---------------------------- error handling --------------------------- *)
\* C35 (as claimed): a login request answered with status error leaves the
\* node's active flag, current_user and token map as they were.
C35_Orig ==
  [][\A n \in Nodes :
       (LoginAnswered(n) /\ last'.status = "error")
       => /\ active'[n] = active[n]
          /\ current_user'[n] = current_user[n]
          /\ logged_users'[n] = logged_users[n]]_vars

\* C36: a logout with a token that does not validate on the node is answered
\* with an error and changes neither active, current_user, the token map nor
\* the message store of any node.
C36_LogoutRejected ==
  [][\A n \in Nodes :
       (LogoutAnswered(n) /\ last'.token \notin DOMAIN logged_users[n])
       => /\ last'.status = "error"
          /\ UNCHANGED <<active, current_user, logged_users, messages, message_ids>>]_vars

\* C36 witness: a logout was refused for the token, since revoked, of the
\* session that posted the message the node holds; the node has no session
C36_Witness ==
  /\ last.action = "logout" /\ last.status = "error" /\ last.node \in Nodes
  /\ last.token \in Issued
  /\ \E m \in Stored(last.node) : last.token = <<"md5", m.author, 0>>
  /\ ~active[last.node] /\ DOMAIN logged_users[last.node] = {}

C38_Orig ==
  \A n \in Nodes : DOMAIN logged_users[n] # {} => active[n]

\* message m is message o in id, author, content and visibility
SameMessage(m, o) ==
  /\ o.id = m.id /\ o.author = m.author /\ o.content = m.content
  /\ o.message_type = m.message_type

\* C39 (as claimed): with sync requests coming only from the pushes of posts,
\* every message a step adds to a node's store is the message of an accepted
\* post of some node, whose store holds after the step a message with the
\* same id, author, content and visibility.
C39_Orig ==
  [][\A p \in Nodes : \A m \in Added(p) :
       \E n \in Nodes :
         /\ req[n].kind = "post_message" \/ PostAccepted(n)
         /\ SameMessage(m, IF PostAccepted(n) THEN req'[n].message ELSE req[n].message)
         /\ \E o \in Stored(n)' : SameMessage(m, o)]_vars
====
